---- MODULE Spec2Model ----
(***************************************************************************)
(* Model of the Express relay service (chat completion, optional image      *)
(* generation, text-to-speech).  Two applications live in the repository:   *)
(*   "relay": src/unnamed/part_000 (CORS chain, /, /api/completion with     *)
(*            image generation, /api/tts)                                   *)
(*   "basic": src/src/index.ts     (express.json, /, /api/completion)       *)
(* Every request is one index of Reqs; the handlers of different requests   *)
(* interleave at their suspension points (await, provider callback), as on  *)
(* Node's event loop.  Synchronous code between two suspension points is    *)
(* run to completion; where it is split into several actions the split is   *)
(* only finer than the code, never coarser.                                 *)
(*                                                                          *)
(* Providers honour their API contract: a call either returns a well-formed *)
(* result (choices[0] / data[0] exist) or fails; speakTextAsync invokes     *)
(* exactly one of its two callbacks, once.  Express (4.x) ignores the       *)
(* promise an async handler returns; a rejection of that promise is an      *)
(* unhandled rejection, on which Node (15 and later, no unhandledRejection  *)
(* listener being installed) terminates the process.                        *)
(***************************************************************************)
EXTENDS Naturals, FiniteSets, Sequences, TLC

\* Number of concurrent in-flight requests.
NumRequests == 2

Reqs == 1..NumRequests

\* JSON values: a string stands for itself, the rest are the markers below
Absent == "<absent>"    \* undefined / field not present
Null == "<null>"        \* JSON null
JsonFalse == "<false>"  \* JSON false
JsonTrue == "<true>"    \* JSON true
JsonZero == "<0>"       \* JSON number 0

\* JavaScript falsiness of a value a JSON body can hold: !v
Falsy(v) == v \in {Absent, Null, JsonFalse, JsonZero, ""}

DefaultVoice == "en-US-JennyMultilingualNeural"

----------------------------------------------------------------------------
(* Requests *)

Paths == {"/", "/api/completion", "/api/tts", "/other"}

Body(generateImage, text, voice) ==
    [messages |-> "msgs", generateImage |-> generateImage, text |-> text, voice |-> voice]

NoBody == [messages |-> Absent, generateImage |-> Absent, text |-> Absent, voice |-> Absent]

CompletionBodies == { Body(g, Absent, Absent) : g \in {Absent, JsonFalse, JsonTrue} }

TtsBodies ==
    { [NoBody EXCEPT !.text = Absent],
      [NoBody EXCEPT !.text = ""],
      [NoBody EXCEPT !.text = Null],
      [NoBody EXCEPT !.text = JsonZero],
      [NoBody EXCEPT !.text = "hi"],
      [NoBody EXCEPT !.text = "hi", !.voice = "es-ES-ElviraNeural"] }

Request(app, method, path, body) ==
    [app |-> app, method |-> method, path |-> path, body |-> body]

RelayRequests ==
    { Request("relay", "OPTIONS", p, NoBody) : p \in Paths }
    \cup { Request("relay", "GET", "/", NoBody), Request("relay", "GET", "/other", NoBody) }
    \cup { Request("relay", "POST", "/api/completion", b) : b \in CompletionBodies }
    \cup { Request("relay", "POST", "/api/tts", b) : b \in TtsBodies }

\* index.ts reads only messages: a body with generateImage set is served as one without
BasicRequests ==
    { Request("basic", "GET", "/", NoBody) }
    \cup { Request("basic", "POST", "/api/completion", Body(g, Absent, Absent)) :
             g \in {Absent, JsonTrue} }

NoRequest == Request(Absent, Absent, Absent, NoBody)

----------------------------------------------------------------------------
(* Provider outcomes *)

\* a successful chat completion: choices[0].message.content (nullable) and usage
ChatResults == { [content |-> "text", usage |-> "usage"],
                 [content |-> Null, usage |-> "usage"] }

NoCompletion == [content |-> Absent, usage |-> Absent]

\* what a failing call throws: an Error (with a message) or some other value
Thrown == { [isError |-> TRUE, message |-> "boom"],
            [isError |-> FALSE, message |-> Absent] }

\* what the synthesis success callback is handed
SpeakResults == {"audio", "noAudioData", "noResult"}

----------------------------------------------------------------------------
(* HTTP response *)

Json(message, usage, image, error, details) ==
    [message |-> message, usage |-> usage, image |-> image,
     error |-> error, details |-> details]

NoJson == Json(Absent, Absent, Absent, Absent, Absent)

NoHeaders ==
    [allowOrigin |-> Absent, allowMethods |-> Absent, allowHeaders |-> Absent,
     allowCredentials |-> Absent, maxAge |-> Absent, exposeHeaders |-> Absent,
     contentType |-> Absent, transferEncoding |-> Absent]

\* a fresh http.ServerResponse: statusCode 200, nothing sent
NewResponse ==
    [status |-> 200, headers |-> NoHeaders, headersSent |-> FALSE, ended |-> FALSE,
     bodyKind |-> "none", json |-> NoJson, sends |-> 0, writes |-> 0]

ResStatus(rs, code) == [rs EXCEPT !.status = code]

\* res.json(obj): sets Content-Type, sends the headers and the body, ends
ResJson(rs, obj) ==
    [rs EXCEPT !.headers.contentType = "application/json",
               !.headersSent = TRUE, !.ended = TRUE,
               !.bodyKind = "json", !.json = obj, !.sends = @ + 1]

\* res.end() with nothing written before: headers go out, empty body
ResEnd(rs) ==
    [rs EXCEPT !.headersSent = TRUE, !.ended = TRUE, !.sends = @ + 1]

\* res.write(buffer): the first write flushes the headers
ResWrite(rs) ==
    [rs EXCEPT !.headersSent = TRUE, !.bodyKind = "audio", !.writes = @ + 1]

----------------------------------------------------------------------------
VARIABLES
    req,          \* req[r]: the request being served (NoRequest before arrival)
    pc,           \* pc[r]: where request r's handling stands
    res,          \* res[r]: its response object
    completion,   \* completion[r]: const completion (part_000:62, index.ts:29)
    textResponse, \* textResponse[r]: const textResponse (part_000:67)
    calls,        \* calls[r]: provider calls made on behalf of r
    synthesizer,  \* synthesizer[r]: "none" | "open" | "closed"
    promise,      \* promise[r]: the Promise<void> of part_000:134
    handler,      \* handler[r]: the promise the async route handler returned
    log,          \* log[r]: console.error labels written for r
    passed,       \* passed[r]: middleware and routes that have run for r
    azureEnv,     \* process.env.AZURE_SPEECH_KEY / _REGION are set
    process       \* the Node process: "running" | "exited"

vars == <<req, pc, res, completion, textResponse, calls, synthesizer, promise,
          handler, log, passed, azureEnv, process>>

\* the server process is alive: requests are accepted and continuations run
Running == process = "running"

\* calls made for a request and what each call came back with
NoCalls == [chat |-> 0, chatOutcome |-> Absent,
            image |-> 0, prompt |-> Absent, imageOutcome |-> Absent,
            config |-> 0, voice |-> Absent, speak |-> 0, speakOutcome |-> Absent]

Init ==
    /\ req = [r \in Reqs |-> NoRequest]
    /\ pc = [r \in Reqs |-> "idle"]
    /\ res = [r \in Reqs |-> NewResponse]
    /\ completion = [r \in Reqs |-> NoCompletion]
    /\ textResponse = [r \in Reqs |-> Absent]
    /\ calls = [r \in Reqs |-> NoCalls]
    /\ synthesizer = [r \in Reqs |-> "none"]
    /\ promise = [r \in Reqs |-> "none"]
    /\ handler = [r \in Reqs |-> "none"]
    /\ log = [r \in Reqs |-> {}]
    /\ passed = [r \in Reqs |-> {}]
    /\ azureEnv \in BOOLEAN
    /\ process = "running"

----------------------------------------------------------------------------
(* Pure helpers of the handlers *)

\* mutant: preflightContinue left at the cors package's default
PreflightContinueOff == FALSE

\* cors({... preflightContinue: true}) (part_000:27)
PreflightContinue == TRUE

\* mutant: generateImage defaults to true
GenerateImageDefaultTrue(body) ==
    IF body.generateImage = Absent THEN TRUE ELSE ~ Falsy(body.generateImage)

\* const { messages, generateImage = false } = req.body;  if (generateImage)
GenerateImage(body) ==
    IF body.generateImage = Absent THEN FALSE ELSE ~ Falsy(body.generateImage)

\* const { text, voice = "en-US-JennyMultilingualNeural" } = req.body
Voice(body) == IF body.voice = Absent THEN DefaultVoice ELSE body.voice

\* mutant: if (text === undefined)
TextMissingUndefinedOnly(text) == text = Absent

\* if (!text)
TextMissing(text) == Falsy(text)

\* prompt: textResponse || ""
Prompt(text) == IF Falsy(text) THEN "" ELSE text

\* error instanceof Error ? error.message : "Unknown error"
Details(error) == IF error.isError THEN error.message ELSE "Unknown error"

\* the status of the catch blocks' res.status(500)
ErrorStatus == 500

\* mutant: res.json({ error, details }) without status(500)
ErrorEnvelopeNoStatus(rs, error) ==
    ResJson(rs, Json(Absent, Absent, Absent, "Error processing your request", Details(error)))

\* res.status(500).json({ error: "Error processing your request", details })
ErrorEnvelope(rs, error) ==
    ResJson(ResStatus(rs, ErrorStatus),
            Json(Absent, Absent, Absent, "Error processing your request", Details(error)))

\* res.json({ message: textResponse, usage: completion.usage })
TextOnlyResponse(rs, text, usage) ==
    ResJson(rs, Json(text, usage, Absent, Absent, Absent))

\* res.json({ message: textResponse, image: imageResponse.data[0].url, usage })
ImageResponse(rs, text, url, usage) ==
    ResJson(rs, Json(text, usage, url, Absent, Absent))

\* mutant: no inner try/catch, the image error reaches the outer catch
ImageErrorRethrown(rs, text, usage) ==
    ErrorEnvelope(rs, [isError |-> TRUE, message |-> "image"])

\* catch (imageError): res.json({ message, error: "Image generation failed", usage })
ImageErrorResponse(rs, text, usage) ==
    ResJson(rs, Json(text, usage, Absent, "Image generation failed", Absent))

\* const textResponse = ...: a local of the handler's own invocation
StoreTextResponse(r, text) == [textResponse EXCEPT ![r] = text]

\* result && result.audioData
HasAudio(result) == result = "audio"

----------------------------------------------------------------------------
(* Arrival and the middleware chain *)

Arrive(r) ==
    /\ Running
    /\ pc[r] = "idle"
    /\ \E q \in RelayRequests \cup BasicRequests :
          \* one process serves one application
          /\ \A o \in Reqs : req[o].app \in {Absent, q.app}
          /\ req' = [req EXCEPT ![r] = q]
          /\ pc' = [pc EXCEPT ![r] = IF q.app = "relay" THEN "cors" ELSE "json"]
    /\ UNCHANGED <<res, completion, textResponse, calls, synthesizer, promise,
                   handler, log, passed, azureEnv, process>>

\* app.use(cors({...})): the cors package with the options of part_000:19-29
CorsMiddleware(r) ==
    /\ Running
    /\ pc[r] = "cors"
    /\ passed' = [passed EXCEPT ![r] = @ \cup {"cors"}]
    /\ IF req[r].method = "OPTIONS"
       THEN LET hs == [res[r].headers EXCEPT
                          !.allowOrigin = "origin", !.allowCredentials = "true",
                          !.allowMethods = "GET,POST,PUT,DELETE,OPTIONS,PATCH,HEAD",
                          !.allowHeaders = "*", !.maxAge = "86400",
                          !.exposeHeaders = "Content-Range,X-Content-Range"]
                rs == [res[r] EXCEPT !.headers = hs]
            IN IF PreflightContinue
               THEN /\ res' = [res EXCEPT ![r] = rs]
                    /\ pc' = [pc EXCEPT ![r] = "headers"]
               ELSE /\ res' = [res EXCEPT ![r] = ResEnd(ResStatus(rs, 204))]
                    /\ pc' = [pc EXCEPT ![r] = "done"]
       ELSE /\ res' = [res EXCEPT ![r].headers =
                          [@ EXCEPT !.allowOrigin = "origin", !.allowCredentials = "true",
                                    !.exposeHeaders = "Content-Range,X-Content-Range"]]
            /\ pc' = [pc EXCEPT ![r] = "headers"]
    /\ UNCHANGED <<req, completion, textResponse, calls, synthesizer, promise,
                   handler, log, azureEnv, process>>

\* app.use((req, res, next) => {...}) (part_000:32-47)
HeaderMiddleware(r) ==
    /\ Running
    /\ pc[r] = "headers"
    /\ passed' = [passed EXCEPT ![r] = @ \cup {"headers"}]
    /\ LET hs == [res[r].headers EXCEPT
                     !.allowOrigin = "*",
                     !.allowMethods = "GET, PUT, POST, DELETE, OPTIONS, PATCH, HEAD",
                     !.allowHeaders = "*", !.allowCredentials = "true"]
           rs == [res[r] EXCEPT !.headers = hs]
       IN IF req[r].method = "OPTIONS"
          THEN /\ res' = [res EXCEPT ![r] = ResEnd(ResStatus(rs, 200))]
               /\ pc' = [pc EXCEPT ![r] = "done"]
          ELSE /\ res' = [res EXCEPT ![r] = rs]
               /\ pc' = [pc EXCEPT ![r] = "json"]
    /\ UNCHANGED <<req, completion, textResponse, calls, synthesizer, promise,
                   handler, log, azureEnv, process>>

\* app.use(express.json()): req.body is the parsed object from here on
JsonMiddleware(r) ==
    /\ Running
    /\ pc[r] = "json"
    /\ passed' = [passed EXCEPT ![r] = @ \cup {"json"}]
    /\ pc' = [pc EXCEPT ![r] = "route"]
    /\ UNCHANGED <<req, res, completion, textResponse, calls, synthesizer, promise,
                   handler, log, azureEnv, process>>

----------------------------------------------------------------------------
(* Routes *)

Routed(r, method, path) ==
    /\ pc[r] = "route"
    /\ req[r].method = method
    /\ req[r].path = path

\* app.get("/") of either application
HandleRoot(r) ==
    /\ Running
    /\ Routed(r, "GET", "/")
    /\ passed' = [passed EXCEPT ![r] = @ \cup {"root"}]
    /\ res' = [res EXCEPT ![r] =
                 ResJson(@, Json("Hello from Express + TypeScript!",
                                 Absent, Absent, Absent, Absent))]
    /\ pc' = [pc EXCEPT ![r] = "done"]
    /\ UNCHANGED <<req, completion, textResponse, calls, synthesizer, promise,
                   handler, log, azureEnv, process>>

\* no route of the application matches: Express's final handler answers 404
\* with an HTML body (Content-Type: text/html)
NotFound(r) ==
    /\ Running
    /\ pc[r] = "route"
    /\ <<req[r].method, req[r].path>> \notin
          {<<"GET", "/">>, <<"POST", "/api/completion">>, <<"POST", "/api/tts">>}
    /\ res' = [res EXCEPT ![r] =
                 [ResEnd(ResStatus(@, 404)) EXCEPT !.bodyKind = "html",
                                                   !.headers.contentType = "text/html"]]
    /\ pc' = [pc EXCEPT ![r] = "done"]
    /\ UNCHANGED <<req, completion, textResponse, calls, synthesizer, promise,
                   handler, log, passed, azureEnv, process>>

\* app.post("/api/completion") up to the first await (part_000:57-65)
CompletionHandler(r) ==
    /\ Running
    /\ Routed(r, "POST", "/api/completion")
    /\ req[r].app = "relay"
    /\ passed' = [passed EXCEPT ![r] = @ \cup {"completion"}]
    /\ calls' = [calls EXCEPT ![r].chat = @ + 1]
    /\ handler' = [handler EXCEPT ![r] = "pending"]
    /\ pc' = [pc EXCEPT ![r] = "awaitChat"]
    /\ UNCHANGED <<req, res, completion, textResponse, synthesizer, promise, log, azureEnv, process>>

\* the chat completion returned (part_000:67-99, up to the next await or the response)
ChatResolved(r) ==
    /\ Running
    /\ pc[r] = "awaitChat"
    /\ req[r].app = "relay"
    /\ \E c \in ChatResults :
          /\ completion' = [completion EXCEPT ![r] = c]
          /\ textResponse' = StoreTextResponse(r, c.content)
          /\ IF GenerateImage(req[r].body)
             THEN /\ calls' = [calls EXCEPT ![r].chatOutcome = "ok",
                                            ![r].image = @ + 1,
                                            ![r].prompt = Prompt(c.content)]
                  /\ pc' = [pc EXCEPT ![r] = "awaitImage"]
                  /\ UNCHANGED <<res, handler>>
             ELSE /\ calls' = [calls EXCEPT ![r].chatOutcome = "ok"]
                  /\ res' = [res EXCEPT ![r] = TextOnlyResponse(@, c.content, c.usage)]
                  /\ handler' = [handler EXCEPT ![r] = "fulfilled"]
                  /\ pc' = [pc EXCEPT ![r] = "done"]
    /\ UNCHANGED <<req, synthesizer, promise, log, passed, azureEnv, process>>

\* the chat completion failed: the outer catch (part_000:100-106)
ChatRejected(r) ==
    /\ Running
    /\ pc[r] = "awaitChat"
    /\ req[r].app = "relay"
    /\ \E error \in Thrown :
          res' = [res EXCEPT ![r] = ErrorEnvelope(@, error)]
    /\ calls' = [calls EXCEPT ![r].chatOutcome = "failed"]
    /\ log' = [log EXCEPT ![r] = @ \cup {"OpenAI API Error:"}]
    /\ handler' = [handler EXCEPT ![r] = "fulfilled"]
    /\ pc' = [pc EXCEPT ![r] = "done"]
    /\ UNCHANGED <<req, completion, textResponse, synthesizer, promise,
                   passed, azureEnv, process>>

\* the image was generated (part_000:79-83)
ImageResolved(r) ==
    /\ Running
    /\ pc[r] = "awaitImage"
    /\ res' = [res EXCEPT ![r] =
                 ImageResponse(@, textResponse[r], "https://image/url", completion[r].usage)]
    /\ calls' = [calls EXCEPT ![r].imageOutcome = "ok"]
    /\ handler' = [handler EXCEPT ![r] = "fulfilled"]
    /\ pc' = [pc EXCEPT ![r] = "done"]
    /\ UNCHANGED <<req, completion, textResponse, synthesizer, promise,
                   log, passed, azureEnv, process>>

\* image generation failed: the inner catch (part_000:84-92)
ImageRejected(r) ==
    /\ Running
    /\ pc[r] = "awaitImage"
    /\ res' = [res EXCEPT ![r] =
                 ImageErrorResponse(@, textResponse[r], completion[r].usage)]
    /\ calls' = [calls EXCEPT ![r].imageOutcome = "failed"]
    /\ log' = [log EXCEPT ![r] = @ \cup {"Image generation error:"}]
    /\ handler' = [handler EXCEPT ![r] = "fulfilled"]
    /\ pc' = [pc EXCEPT ![r] = "done"]
    /\ UNCHANGED <<req, completion, textResponse, synthesizer, promise,
                   passed, azureEnv, process>>

\* app.post("/api/completion") of index.ts up to its await (index.ts:25-32)
BasicCompletionHandler(r) ==
    /\ Running
    /\ Routed(r, "POST", "/api/completion")
    /\ req[r].app = "basic"
    /\ passed' = [passed EXCEPT ![r] = @ \cup {"completion"}]
    /\ calls' = [calls EXCEPT ![r].chat = @ + 1]
    /\ handler' = [handler EXCEPT ![r] = "pending"]
    /\ pc' = [pc EXCEPT ![r] = "awaitChat"]
    /\ UNCHANGED <<req, res, completion, textResponse, synthesizer, promise, log, azureEnv, process>>

\* index.ts:34-37
BasicChatResolved(r) ==
    /\ Running
    /\ pc[r] = "awaitChat"
    /\ req[r].app = "basic"
    /\ \E c \in ChatResults :
          /\ completion' = [completion EXCEPT ![r] = c]
          /\ res' = [res EXCEPT ![r] = TextOnlyResponse(@, c.content, c.usage)]
    /\ calls' = [calls EXCEPT ![r].chatOutcome = "ok"]
    /\ handler' = [handler EXCEPT ![r] = "fulfilled"]
    /\ pc' = [pc EXCEPT ![r] = "done"]
    /\ UNCHANGED <<req, textResponse, synthesizer, promise, log, passed, azureEnv, process>>

\* index.ts:38-44
BasicChatRejected(r) ==
    /\ Running
    /\ pc[r] = "awaitChat"
    /\ req[r].app = "basic"
    /\ \E error \in Thrown :
          res' = [res EXCEPT ![r] = ErrorEnvelope(@, error)]
    /\ calls' = [calls EXCEPT ![r].chatOutcome = "failed"]
    /\ log' = [log EXCEPT ![r] = @ \cup {"OpenAI API Error:"}]
    /\ handler' = [handler EXCEPT ![r] = "fulfilled"]
    /\ pc' = [pc EXCEPT ![r] = "done"]
    /\ UNCHANGED <<req, completion, textResponse, synthesizer, promise,
                   passed, azureEnv, process>>

----------------------------------------------------------------------------
(* app.post("/api/tts") (part_000:110-162) *)

\* destructuring and the text check (part_000:112-116)
TtsHandler(r) ==
    /\ Running
    /\ Routed(r, "POST", "/api/tts")
    /\ passed' = [passed EXCEPT ![r] = @ \cup {"tts"}]
    /\ IF TextMissing(req[r].body.text)
       THEN /\ res' = [res EXCEPT ![r] =
                         ResJson(ResStatus(@, 400),
                                 Json(Absent, Absent, Absent, "Text is required", Absent))]
            /\ handler' = [handler EXCEPT ![r] = "fulfilled"]
            /\ pc' = [pc EXCEPT ![r] = "done"]
       ELSE /\ handler' = [handler EXCEPT ![r] = "pending"]
            /\ pc' = [pc EXCEPT ![r] = "configuring"]
            /\ UNCHANGED res
    /\ UNCHANGED <<req, completion, textResponse, calls, synthesizer, promise, log, azureEnv, process>>

\* SpeechConfig.fromSubscription .. the handler returns the promise
\* (part_000:118-152); fromSubscription throws on a missing key or region, and
\* that synchronous throw is what the catch block (part_000:153-161) receives
TtsConfigure(r) ==
    /\ Running
    /\ pc[r] = "configuring"
    /\ IF azureEnv
       THEN /\ calls' = [calls EXCEPT ![r].config = @ + 1,
                                      ![r].voice = Voice(req[r].body),
                                      ![r].speak = @ + 1]
            /\ res' = [res EXCEPT ![r].headers.contentType = "audio/wav",
                                  ![r].headers.transferEncoding = "chunked"]
            /\ synthesizer' = [synthesizer EXCEPT ![r] = "open"]
            /\ promise' = [promise EXCEPT ![r] = "pending"]
            /\ pc' = [pc EXCEPT ![r] = "awaitSynthesis"]
            /\ UNCHANGED <<log, handler>>
       ELSE /\ log' = [log EXCEPT ![r] = @ \cup {"TTS Error:"}]
            /\ res' = [res EXCEPT ![r] =
                         IF ~ @.headersSent
                         THEN ErrorEnvelope(@, [isError |-> TRUE, message |-> "throwIfNullOrWhitespace"])
                         ELSE @]
            /\ handler' = [handler EXCEPT ![r] = "fulfilled"]
            /\ pc' = [pc EXCEPT ![r] = "done"]
            /\ UNCHANGED <<calls, synthesizer, promise>>
    /\ UNCHANGED <<req, completion, textResponse, passed, azureEnv, process>>

\* The handler returns the promise without awaiting it (part_000:134), so its
\* rejection settles the handler's own promise and never enters the catch
\* block; nothing in the repository handles the rejected handler promise
\* (no process.on("unhandledRejection")), so Node raises it as an uncaught
\* error and the process exits with code 1: no request in flight is answered.
Reject(r) ==
    /\ promise' = [promise EXCEPT ![r] = "rejected"]
    /\ handler' = [handler EXCEPT ![r] = "rejected"]
    /\ pc' = [pc EXCEPT ![r] = "unhandledRejection"]
    /\ process' = "exited"

\* speakTextAsync's result callback (part_000:137-146)
SpeakResultCallback(r) ==
    /\ Running
    /\ pc[r] = "awaitSynthesis"
    /\ \E result \in SpeakResults :
          /\ calls' = [calls EXCEPT ![r].speakOutcome = result]
          /\ IF HasAudio(result)
             THEN /\ res' = [res EXCEPT ![r] = ResEnd(ResWrite(@))]
                  /\ synthesizer' = [synthesizer EXCEPT ![r] = "closed"]
                  /\ promise' = [promise EXCEPT ![r] = "resolved"]
                  /\ handler' = [handler EXCEPT ![r] = "fulfilled"]
                  /\ pc' = [pc EXCEPT ![r] = "done"]
                  /\ UNCHANGED process
             ELSE /\ Reject(r)
                  /\ UNCHANGED <<res, synthesizer>>
    /\ UNCHANGED <<req, completion, textResponse, log, passed, azureEnv>>

\* speakTextAsync's error callback (part_000:147-150)
SpeakErrorCallback(r) ==
    /\ Running
    /\ pc[r] = "awaitSynthesis"
    /\ calls' = [calls EXCEPT ![r].speakOutcome = "error"]
    /\ log' = [log EXCEPT ![r] = @ \cup {"Speech synthesis error:"}]
    /\ Reject(r)
    /\ UNCHANGED <<req, res, completion, textResponse, synthesizer, passed, azureEnv>>

----------------------------------------------------------------------------
(* The service *)

\* everything the server does for request r once it has arrived
Step(r) ==
    \/ CorsMiddleware(r)
    \/ HeaderMiddleware(r)
    \/ JsonMiddleware(r)
    \/ HandleRoot(r)
    \/ NotFound(r)
    \/ CompletionHandler(r)
    \/ ChatResolved(r)
    \/ ChatRejected(r)
    \/ ImageResolved(r)
    \/ ImageRejected(r)
    \/ BasicCompletionHandler(r)
    \/ BasicChatResolved(r)
    \/ BasicChatRejected(r)
    \/ TtsHandler(r)
    \/ TtsConfigure(r)
    \/ SpeakResultCallback(r)
    \/ SpeakErrorCallback(r)

Next == \E r \in Reqs : Arrive(r) \/ Step(r)

Spec == Init /\ [][Next]_vars

\* The event loop runs every ready continuation, and every provider call
\* eventually returns, fails or invokes a callback.
FairSpec == Spec /\ \A r \in Reqs : WF_vars(Step(r))

----------------------------------------------------------------------------
(* Properties *)

IsRelay(r, method, path) ==
    req[r].app = "relay" /\ req[r].method = method /\ req[r].path = path

IsCompletion(r) == req[r].method = "POST" /\ req[r].path = "/api/completion"

IsTts(r) == IsRelay(r, "POST", "/api/tts")

Finished(r) == pc[r] \in {"done", "unhandledRejection"}

NoSpeechCalls(r) ==
    /\ calls[r].config = 0
    /\ calls[r].speak = 0
    /\ synthesizer[r] = "none"
    /\ promise[r] = "none"

NoProviderCalls(r) ==
    /\ NoSpeechCalls(r)
    /\ calls[r].chat = 0
    /\ calls[r].image = 0

IsErrorEnvelope(rs) ==
    /\ rs.status = 500
    /\ rs.ended
    /\ rs.bodyKind = "json"
    /\ rs.json.error # Absent
    /\ rs.json.details # Absent

\* C1: a POST /api/tts whose text is missing or empty (or any other falsy JSON
\* value: null, 0) never configures, creates
\* or invokes a synthesis session, and once its handler has run the response is
\* HTTP 400 {error: "Text is required"}.
C1_EmptyTextRejected ==
    \A r \in Reqs :
        (IsTts(r) /\ req[r].body.text \in {Absent, "", Null, JsonZero}) =>
            /\ NoSpeechCalls(r)
            /\ pc[r] \in {"cors", "headers", "json", "route", "done"}
            /\ ("tts" \in passed[r] =>
                    /\ pc[r] = "done"
                    /\ res[r].status = 400
                    /\ res[r].ended
                    /\ res[r].sends = 1
                    /\ res[r].bodyKind = "json"
                    /\ res[r].json = Json(Absent, Absent, Absent, "Text is required", Absent))

C1_Witness ==
    \E r \in Reqs :
        /\ IsTts(r)
        /\ req[r].body.text = ""
        /\ "tts" \in passed[r]
        /\ res[r].status = 400
        /\ res[r].ended

\* C2: when the chat-completion call fails the response is HTTP 500 with error
\* and details, without message, usage or image, and the image provider was
\* never called, whatever generateImage was.
C2_ChatFailureIs500 ==
    \A r \in Reqs :
        calls[r].chatOutcome = "failed" =>
            /\ IsErrorEnvelope(res[r])
            /\ res[r].sends = 1
            /\ res[r].json.message = Absent
            /\ res[r].json.usage = Absent
            /\ res[r].json.image = Absent
            /\ calls[r].image = 0
            /\ calls[r].chat = 1

C2_Witness ==
    \E r \in Reqs :
        /\ IsRelay(r, "POST", "/api/completion")
        /\ req[r].body.generateImage = JsonTrue
        /\ calls[r].chatOutcome = "failed"
        /\ res[r].status = 500

\* C3: with generateImage omitted or false the image provider is never called,
\* and when the chat completion succeeded the response carries neither an image
\* nor an error field.
C3_NoImageUnlessRequested ==
    \A r \in Reqs :
        (IsCompletion(r) /\ req[r].body.generateImage \in {Absent, JsonFalse}) =>
            /\ calls[r].image = 0
            /\ pc[r] # "awaitImage"
            /\ (calls[r].chatOutcome = "ok" =>
                    /\ res[r].ended
                    /\ res[r].status = 200
                    /\ res[r].json.image = Absent
                    /\ res[r].json.error = Absent
                    /\ res[r].json.message = completion[r].content)

C3_Witness ==
    \E r \in Reqs :
        /\ IsRelay(r, "POST", "/api/completion")
        /\ req[r].body.generateImage = Absent
        /\ calls[r].chatOutcome = "ok"
        /\ res[r].ended

\* C4: once the chat completion has succeeded every response is HTTP 200 with
\* the completion's message and usage; if the image call then fails the
\* response also has an error field and no image field.
C4_ImageFailureIsPartialSuccess ==
    \A r \in Reqs :
        /\ (calls[r].chatOutcome = "ok" /\ res[r].ended) =>
                /\ res[r].status = 200
                /\ res[r].sends = 1
                /\ res[r].bodyKind = "json"
                /\ res[r].json.message = completion[r].content
                /\ res[r].json.usage = completion[r].usage
                /\ res[r].json.details = Absent
        /\ calls[r].imageOutcome = "failed" =>
                /\ req[r].body.generateImage = JsonTrue
                /\ calls[r].chatOutcome = "ok"
                /\ res[r].ended
                /\ res[r].json.error = "Image generation failed"
                /\ res[r].json.image = Absent
        /\ calls[r].imageOutcome = "ok" =>
                /\ res[r].ended
                /\ res[r].json.error = Absent
                /\ res[r].json.image # Absent

C4_Witness ==
    \E r \in Reqs :
        /\ calls[r].imageOutcome = "failed"
        /\ completion[r].content = "text"
        /\ res[r].status = 200
        /\ res[r].json.error # Absent

\* C5: when the synthesis call delivers no audio data or an error before the
\* headers were sent, the failure is caught in the handler (the handler's
\* promise is not rejected) and the client receives HTTP 500 {error, details}.
C5_SynthesisFailureCaught ==
    \A r \in Reqs :
        (calls[r].speakOutcome \in {"noAudioData", "noResult", "error"}) =>
            /\ handler[r] # "rejected"
            /\ "TTS Error:" \in log[r]
            /\ IsErrorEnvelope(res[r])

\* the states of the TTS state machine, read off the request's state
TtsClosed(r) ==
    /\ promise[r] = "resolved"
    /\ res[r].writes = 1
    /\ res[r].ended
    /\ synthesizer[r] = "closed"

TtsFailedBeforeWrite(r) ==
    /\ "TTS Error:" \in log[r]
    /\ res[r].writes = 0
    /\ IsErrorEnvelope(res[r])

TtsFailedAfterHeaders(r) ==
    /\ "TTS Error:" \in log[r]
    /\ res[r].writes > 0
    /\ res[r].bodyKind = "audio"

TtsTerminalStates(r) ==
    { s \in {"Closed", "FailedBeforeWrite", "FailedAfterHeaders"} :
        \/ s = "Closed" /\ TtsClosed(r)
        \/ s = "FailedBeforeWrite" /\ TtsFailedBeforeWrite(r)
        \/ s = "FailedAfterHeaders" /\ TtsFailedAfterHeaders(r) }

\* C6: a validated POST /api/tts whose synthesis call has come back is in
\* exactly one of the terminal states Closed, FailedBeforeWrite and
\* FailedAfterHeaders.
C6_ExactlyOneTerminalState ==
    \A r \in Reqs :
        (IsTts(r) /\ calls[r].speakOutcome # Absent) =>
            Cardinality(TtsTerminalStates(r)) = 1

\* C7: no request completes (its handler's promise settles) while the
\* synthesis session it constructed is still open.
C7_SessionDisposed ==
    \A r \in Reqs :
        handler[r] \in {"fulfilled", "rejected"} => synthesizer[r] # "open"

Suspended(r) == pc[r] \in {"awaitChat", "awaitImage", "awaitSynthesis"}

\* a response is a function of the request's own completion
OwnResults(r) ==
    (calls[r].chatOutcome = "ok" /\ res[r].ended) =>
        /\ res[r].json.message = completion[r].content
        /\ res[r].json.usage = completion[r].usage
        /\ textResponse[r] \in {Absent, completion[r].content}

\* C8: no request keeps another from being handled to completion: a request
\* suspended on a provider call can be resumed with that call's outcome
\* whatever the other requests are doing or have done, and a response is built
\* from the request's own provider results.
C8_RequestsIsolated ==
    \A r \in Reqs :
        /\ OwnResults(r)
        /\ Suspended(r) => ENABLED Step(r)

CorsHeadersSet(rs) ==
    /\ rs.headers.allowOrigin = "*"
    /\ rs.headers.allowMethods # Absent
    /\ rs.headers.allowHeaders = "*"
    /\ rs.headers.allowCredentials = "true"

\* C9: an OPTIONS request, whatever its path, is finished by the middleware
\* chain with HTTP 200, an empty body and the CORS headers, before body parsing
\* and before any route, and makes no provider call.
C9_OptionsAnswered ==
    \A r \in Reqs :
        (req[r].app = "relay" /\ req[r].method = "OPTIONS") =>
            /\ passed[r] \subseteq {"cors", "headers"}
            /\ pc[r] \in {"cors", "headers", "done"}
            /\ NoProviderCalls(r)
            /\ (pc[r] = "done" =>
                    /\ passed[r] = {"cors", "headers"}
                    /\ res[r].status = 200
                    /\ res[r].ended
                    /\ res[r].sends = 1
                    /\ res[r].bodyKind = "none"
                    /\ CorsHeadersSet(res[r]))

C9_Witness ==
    \E r \in Reqs :
        /\ IsRelay(r, "OPTIONS", "/other")
        /\ pc[r] = "done"
        /\ res[r].status = 200

HasRoute(r) ==
    <<req[r].method, req[r].path>> \in
        {<<"GET", "/">>, <<"POST", "/api/completion">>, <<"POST", "/api/tts">>}

\* C10: every request to GET /, POST /api/completion or POST /api/tts
\* eventually has its response ended, and no response is sent twice.
C10_ResponseEndsOnce ==
    /\ \A r \in Reqs : [](HasRoute(r) => <>res[r].ended)
    /\ [](\A r \in Reqs : res[r].sends <= 1)

====
